---- MODULE Spec2Model ----
(***************************************************************************)
(* The mood-analysis pipeline of the-pulse (analyze-mood script): feed     *)
(* fetch, remote analysis with retry/backoff, per-entity files and the     *)
(* combined store mood.json.  The program is sequential async code: a      *)
(* state is "what the process is awaiting", an action is the continuation  *)
(* that runs when the awaited thing completes.                             *)
(***************************************************************************)
EXTENDS Integers, Sequences, FiniteSets, TLC

(* ---------------- bounds of the model ---------------- *)
NumTracked == 2
MaxRuns == 2
MaxHeadlines == 1
MaxDay == 2
MaxHashes == 1
MaxItems == 16
MaxSegments == 3

(* ---------------- program constants ---------------- *)
MAX_RETRIES == 3
SLEEP_BETWEEN_COUNTRIES_MS == 65000
DEFAULT_COOLDOWN_MS == 70000
SHORT_DELAY_MS == 5000
SAFETY_MARGIN_S == 5
MAX_HEADLINES == 15

\* keys of COUNTRIES, in insertion order
COUNTRIES == <<"KR", "CN", "RU", "US", "UK">>

\* the tracked entities of the model: a prefix of COUNTRIES
Tracked == SubSeq(COUNTRIES, 1, NumTracked)
TrackedSet == {Tracked[k] : k \in 1..Len(Tracked)}

\* a key that an older configuration tracked and this one does not
UntrackedKey == "JP"

(* ---------------- error text ---------------- *)
\* An error message is a sequence of tokens.  A token is a literal word
\* (digits empty), a number (lit empty) or the fragment
\* "retryDelay": "<digits>s" (lit "retryDelay"; no digits when the value is
\* not of the form \d+s).
Lit(s) == [lit |-> s, digits |-> <<>>]
Num(ds) == [lit |-> "", digits |-> ds]
RetryDelayTok(ds) == [lit |-> "retryDelay", digits |-> ds]

\* String.prototype.includes for a literal marker
includes(msg, s) == \E k \in 1..Len(msg) : msg[k].lit = s

\* String.prototype.includes for a run of digits
includesDigits(msg, ds) ==
    \E k \in 1..Len(msg) :
        \E off \in 0..(Len(msg[k].digits) - Len(ds)) :
            \A d \in 1..Len(ds) : msg[k].digits[off + d] = ds[d]

\* parseInt(text, 10) of a run of decimal digits
RECURSIVE parseInt(_)
parseInt(ds) ==
    IF ds = <<>> THEN 0
    ELSE 10 * parseInt(SubSeq(ds, 1, Len(ds) - 1)) + ds[Len(ds)]

\* error.message.match(/"retryDelay":\s*"(\d+)s"/): index of the first match, 0 if none
retryDelayMatch(msg) ==
    LET hits == {k \in 1..Len(msg) : msg[k].lit = "retryDelay" /\ msg[k].digits # <<>>}
    IN  IF hits = {} THEN 0 ELSE CHOOSE k \in hits : \A m \in hits : k <= m

\* the rate-limit test of the catch block
isRateLimit(msg) ==
    \/ includesDigits(msg, <<4, 2, 9>>)
    \/ includes(msg, "Quota")
    \/ includes(msg, "RESOURCE_EXHAUSTED")

WaitTime_noMargin(msg) ==
    IF isRateLimit(msg)
    THEN IF retryDelayMatch(msg) # 0
         THEN parseInt(msg[retryDelayMatch(msg)].digits) * 1000
         ELSE DEFAULT_COOLDOWN_MS
    ELSE SHORT_DELAY_MS

\* waitTime of the catch block, in milliseconds
WaitTime(msg) ==
    IF isRateLimit(msg)
    THEN IF retryDelayMatch(msg) # 0
         THEN (parseInt(msg[retryDelayMatch(msg)].digits) + SAFETY_MARGIN_S) * 1000
         ELSE DEFAULT_COOLDOWN_MS
    ELSE SHORT_DELAY_MS

ShouldRetry_oneMore(rc) == rc <= MAX_RETRIES - 1

\* retryCount < MAX_RETRIES - 1
ShouldRetry(rc) == rc < MAX_RETRIES - 1

(* ---------------- remote answers ---------------- *)
Bodies ==
    { <<>>,
      <<Lit("RESOURCE_EXHAUSTED")>>,
      <<Lit("Quota"), RetryDelayTok(<<3, 7>>)>>,
      <<RetryDelayTok(<<7>>)>>,
      <<Lit("RESOURCE_EXHAUSTED"), RetryDelayTok(<<>>)>>,
      <<Lit("RESOURCE_EXHAUSTED"), RetryDelayTok(<<0>>)>> }

Statuses == { <<4, 2, 9>>, <<5, 0, 0>> }

\* what one analysis request can come back with
Responses ==
    { [kind |-> "ok", status |-> <<2, 0, 0>>, body |-> <<>>] }
    \cup { [kind |-> "http", status |-> s, body |-> b] : s \in Statuses, b \in Bodies }
    \cup { [kind |-> "nocandidates", status |-> <<2, 0, 0>>, body |-> b] :
              b \in { <<>>, <<Lit("Quota")>> } }
    \cup { [kind |-> "badjson", status |-> <<2, 0, 0>>, body |-> b] :
              b \in { <<>>, <<Lit("position"), Num(<<1, 4, 2, 9>>)>> } }
    \cup { [kind |-> "network", status |-> <<>>, body |-> <<>>] }

\* error.message of the error thrown for a failed attempt
ErrorMessage(resp) ==
    CASE resp.kind = "http" ->
            <<Lit("Gemini API Error:"), Num(resp.status), Lit("-")>> \o resp.body
      [] resp.kind = "nocandidates" -> <<Lit("Gemini Error:")>> \o resp.body
      [] resp.kind = "badjson" -> <<Lit("Unexpected token")>> \o resp.body
      [] OTHER -> <<Lit("request failed")>>

(* ---------------- time slot ---------------- *)
\* Instants are seconds since the epoch (UTC); an ISO-8601 string ending in
\* Z is the instant it denotes.
HOUR_S == 3600
DAY_S == 86400

\* 9 * 60 * 60 * 1000 ms
KST_OFFSET_S == 9 * HOUR_S

scheduleHours == <<0, 8, 12, 16, 20>>

\* Date.prototype.getUTCHours
getUTCHours(t) == (t \div HOUR_S) % 24

\* Date.prototype.getUTCMinutes, getUTCSeconds
getUTCMinutes(t) == (t \div 60) % 60
getUTCSeconds(t) == t % 60

\* toISOString().split('T')[0]: the UTC calendar day, as a day number
isoDate(t) == t \div DAY_S

\* setUTCHours(h, 0, 0, 0)
setUTCHours(t, h) == isoDate(t) * DAY_S + h * HOUR_S

\* new Date(nowUTC.getTime() + 9 * 60 * 60 * 1000)
nowKSTOf(t) == t + KST_OFFSET_S

\* let alignedHour = scheduleHours[0]; for (const h of scheduleHours) if (kstHour >= h) alignedHour = h
RECURSIVE alignLoop(_, _, _)
alignLoop(k, acc, kstHour) ==
    IF k > Len(scheduleHours) THEN acc
    ELSE alignLoop(k + 1, IF kstHour >= scheduleHours[k] THEN scheduleHours[k] ELSE acc,
                   kstHour)

alignedHourOf(t) == alignLoop(1, scheduleHours[1], getUTCHours(nowKSTOf(t)))

updatedAtISOOf_unaligned(t) == nowKSTOf(t)

\* updatedAtDate.setUTCHours(alignedHour, 0, 0, 0); updatedAtDate.toISOString()
updatedAtISOOf(t) == setUTCHours(nowKSTOf(t), alignedHourOf(t))

\* String(alignedHour).padStart(2, '0'), as decimal digits
padStart2(h) == IF h < 10 THEN <<0, h>> ELSE <<h \div 10, h % 10>>

dateStrOf_dayOnly(t) == <<isoDate(nowKSTOf(t)), <<0, 0>>>>

\* `${kstDate}T${String(alignedHour).padStart(2, '0')}-00-00`
dateStrOf(t) == <<isoDate(nowKSTOf(t)), padStart2(alignedHourOf(t))>>

\* Date.prototype.getHours and setHours(h, 0, 0, 0) on a host whose local
\* time is tz seconds ahead of UTC
getHours(t, tz) == getUTCHours(t + tz)
setHours(t, tz, h) == isoDate(t + tz) * DAY_S + h * HOUR_S - tz

\* local time zones of the hosts a run is started on: UTC, UTC-5, UTC+9
HostZones == {0, 0 - 5 * HOUR_S, 9 * HOUR_S}

slotOnHost_local(tz, t) ==
    LET alignedHour == alignLoop(1, scheduleHours[1], getHours(nowKSTOf(t), tz))
    IN  <<setHours(nowKSTOf(t), tz, alignedHour),
          <<isoDate(nowKSTOf(t)), padStart2(alignedHour)>>>>

\* updatedAtISO and dateStr of a run started at instant t on a host of zone
\* tz: the script reads the clock through getTime, getUTCHours, setUTCHours
\* and toISOString only
slotOnHost(tz, t) == <<updatedAtISOOf(t), dateStrOf(t)>>

\* formatTime of the client: year-month-day (as a day number), hour and
\* minute of the instant 9 hours after the one the string denotes
NoTime == [day |-> 0, hour |-> 0, minute |-> 0]
formatTime(iso) ==
    [day |-> isoDate(iso + KST_OFFSET_S),
     hour |-> getUTCHours(iso + KST_OFFSET_S),
     minute |-> getUTCMinutes(iso + KST_OFFSET_S)]

\* file name `${code}_${dateStr}Z.json`
HistName(code, ds) == <<code, ds[1], ds[2]>>

(* ---------------- store ---------------- *)
EmptyStore == [k \in {} |-> 0]

\* { ...a, ...b }
Spread(a, b) ==
    [k \in (DOMAIN a) \cup (DOMAIN b) |-> IF k \in DOMAIN b THEN b[k] ELSE a[k]]

\* what analyzeWithGemini returns for a run: the content of the answer (gen
\* stands for it), a countryCode (the model's, or the default of the
\* normalization) and, when the model sends one, an updatedAt
AiResults(code, run) ==
    { [gen |-> run, countryCode |-> cc] : cc \in {code, "XX"} }
    \cup { [gen |-> run, countryCode |-> cc, updatedAt |-> 0] : cc \in {code, "XX"} }

finalData_aiLast(ai, code, upd) == Spread([countryCode |-> code, updatedAt |-> upd], ai)

\* the record a run stores for an entity: { ...aiResult, countryCode: code, updatedAt: updatedAtISO }
finalData(ai, code, upd) == Spread(ai, [countryCode |-> code, updatedAt |-> upd])

Put_keepExisting(res, code, rec) ==
    [k \in (DOMAIN res) \cup {code} |-> IF k \in DOMAIN res THEN res[k] ELSE rec]

\* results[code] = finalData
Put(res, code, rec) ==
    [k \in (DOMAIN res) \cup {code} |-> IF k = code THEN rec ELSE res[k]]

Prune_keepAll(res) == res

\* delete results[key] for every key that is not a tracked code
Prune(res) == [k \in (DOMAIN res) \cap TrackedSet |-> res[k]]

\* a record left by an earlier run
OldRecord(k) == [gen |-> 0, countryCode |-> k, updatedAt |-> 0]

\* content of mood.json: absent, not parseable, or a JSON object
InitDisks ==
    { [kind |-> "absent", data |-> EmptyStore],
      [kind |-> "corrupt", data |-> EmptyStore] }
    \cup { [kind |-> "json", data |-> [k \in K |-> OldRecord(k)]] :
              K \in SUBSET (TrackedSet \cup {UntrackedKey}) }

LoadExisting_default(d) ==
    IF d.kind = "json" THEN d.data ELSE [k \in TrackedSet |-> OldRecord(k)]

\* existingMoodData after the guarded read of mood.json
LoadExisting(d) == IF d.kind = "json" THEN d.data ELSE EmptyStore

\* fs.existsSync(moodJsonPath) guards the one readFileSync
ReadsOf(d) == IF d.kind = "absent" THEN 0 ELSE 1

InitialResults_empty(existing) == EmptyStore

\* const results = { ...existingMoodData }
InitialResults(existing) == existing

KeyMissingExits_warnOnly(key) == FALSE

\* if (!GEMINI_API_KEY) process.exit(1)
KeyMissingExits(key) == ~key

OnFailure_blank(res, code) == [k \in (DOMAIN res) \ {code} |-> res[k]]

\* the per-entity catch block: results is left as it is
OnFailure(res, code) == res

NextIndex_abort(j) == Len(Tracked) + 1

\* the loop's i++ : the catch block falls through to the next iteration
NextIndex(j) == j + 1

SavesStore_everyIteration(j) == TRUE

\* fs.writeFileSync(moodJsonPath, ...) stands after the loop
SavesStore(j) == j > Len(Tracked)

(* ---------------- feed ---------------- *)
\* the Response that fetch(url) resolves with; only its status matters
FeedStatuses == { [reachable |-> r, ok |-> o] : r \in BOOLEAN, o \in BOOLEAN }

NoResponse == [code |-> "", ok |-> FALSE]

\* number of headlines fetchHeadlines returns for a body with so many titled
\* items: one per item; response.ok is not looked at
fetchHeadlines(resp, titles) == titles

Settle_keep(fl, req) == fl

\* an await returns: the awaited request is no longer outstanding
Settle(fl, req) == fl \ {req}

(* ---------------- feed parsing ---------------- *)
\* An item block of a feed body: its position, whether it holds a
\* <title>..</title>, whether the title is wrapped in <![CDATA[..]]>, and the
\* number of parts of the title that " - " separates (the last one is the
\* source when there are two or more).
Item(j, titled, cdata, segs) == [id |-> j, titled |-> titled, cdata |-> cdata, segs |-> segs]

\* a headline: the item it comes from, whether a CDATA wrapper is left, and
\* how many leading parts of the title it keeps
Headline(j, cdata, kept) == [id |-> j, cdata |-> cdata, kept |-> kept]

firstItems_all(b) == b

\* items.slice(0, MAX_HEADLINES)
firstItems(b) == SubSeq(b, 1, IF Len(b) < MAX_HEADLINES THEN Len(b) ELSE MAX_HEADLINES)

\* item.match(/<title>(.*?)<\/title>/)
titleMatch(it) == it.titled

\* titleMatch[1].replace(/<!\[CDATA\[(.*?)\]\]>/g, '$1').split(' - ')[0]
cleanTitle(it) == Headline(it.id, FALSE, 1)

\* the loop of fetchHeadlines over the item blocks of the body
headlinesOf(b) ==
    LET titled == SelectSeq(firstItems(b), titleMatch)
    IN  [k \in 1..Len(titled) |-> cleanTitle(titled[k])]

\* a feed body of n item blocks, those at u1 and u2 without a title (0: none);
\* the title at p has k parts and is wrapped in CDATA if cd, the others are
\* "text - source"
FeedBody(n, u1, u2, p, k, cd) ==
    [j \in 1..n |-> Item(j, j \notin {u1, u2}, j = p /\ cd, IF j = p THEN k ELSE 2)]

(* ---------------- normalization ---------------- *)
\* JSON values of the fields of a response.  A string field is a string,
\* Absent when the key is missing; an array field is Arr(items) or NoArr; a
\* sub-topic string is its number of leading '#' and the text after them; a
\* number field is an integer, NoNumber when the key is missing.
Absent == "<absent>"
NoNumber == -1

\* JavaScript truthiness of a string field: undefined and "" are falsy
truthy(s) == s # Absent /\ s # ""

\* JavaScript truthiness of a number field: undefined and 0 are falsy
truthyNum(n) == n # NoNumber /\ n # 0

NoArr == [t |-> "absent", items |-> <<>>]
Arr(items) == [t |-> "arr", items |-> items]

\* a || b on string fields, and on array fields (an empty array is truthy)
orStr(a, b) == IF truthy(a) THEN a ELSE b
orArr(a, b) == IF a.t = "arr" THEN a ELSE b

\* one translation block { word, subTopics, .. }, or no such key
NoBlock ==
    [t |-> "absent", word |-> Absent, subTopics |-> NoArr, reason |-> Absent,
     country |-> Absent]
Block(w, st, rs, cn) ==
    [t |-> "obj", word |-> w, subTopics |-> st, reason |-> rs, country |-> cn]

\* COUNTRIES[code].name of the script, and countryNames[code][lang] of the
\* client (the Korean and Chinese names are written by their language tag)
countryNameOf(code) ==
    CASE code = "KR" -> "South Korea"
      [] code = "CN" -> "China"
      [] code = "RU" -> "Russia"
      [] code = "US" -> "United States"
      [] code = "UK" -> "United Kingdom"
      [] OTHER -> code

countryNames(code, lang) ==
    IF code \in {"KR", "US", "UK", "CN", "RU"}
    THEN IF lang = "en" THEN countryNameOf(code) ELSE lang \o ":" \o countryNameOf(code)
    ELSE code

\* the translations value: missing, a non-empty string, or an object
Translations(kind, e, k, z) == [t |-> kind, en |-> e, ko |-> k, zh |-> z]
NoTranslations == Translations("absent", NoBlock, NoBlock, NoBlock)

JsonObject(w, kw, st, ht, rs, ex, m, b, c, tr) ==
    [word |-> w, keyword |-> kw, subTopics |-> st, hashtags |-> ht,
     reason |-> rs, explanation |-> ex, mood |-> m, bpm |-> b, color |-> c,
     translations |-> tr]

NoObject ==
    JsonObject(Absent, Absent, NoArr, NoArr, Absent, Absent, Absent, NoNumber, Absent,
               NoTranslations)

\* keywords of the responses of the model
Keywords == {"Tech Boom", "Market SHOCK Strike", "NHS Reform"}

TopicStrings == { [hashes |-> n, text |-> "Samsung"] : n \in 0..MaxHashes }

TopicArrays == {NoArr, Arr(<<>>)} \cup { Arr(<<x>>) : x \in TopicStrings }

\* objects a response can parse to
RawTranslations ==
    { NoTranslations,
      Translations("str", NoBlock, NoBlock, NoBlock),
      Translations("obj", NoBlock, NoBlock, NoBlock) }
    \cup { Translations("obj", Block("AI", st, "because", "South Korea"), NoBlock, NoBlock) :
              st \in TopicArrays \ {NoArr} }
    \cup { Translations("obj", Block("AI", st, "because", "South Korea"),
                           Block("AI", st, "because", "ko:South Korea"),
                           Block("AI", st, "because", "zh:South Korea")) :
              st \in TopicArrays \ {NoArr} }

\* the other fields of a response: reason, explanation, mood, bpm, color
RawDetails ==
    { <<rs, ex, m, b, c>> :
        rs \in {Absent, "because"}, ex \in {Absent, "legacy because"},
        m \in {Absent, "Panic", "Angry"}, b \in {NoNumber, 120, 500},
        c \in {Absent, "#FF0000"} }

RawObjects ==
    { JsonObject(w, kw, st, ht, d[1], d[2], d[3], d[4], d[5], tr) :
        w \in {Absent, "", "AI"}, kw \in {Absent} \cup Keywords,
        st \in TopicArrays, ht \in {NoArr, Arr(<<[hashes |-> 1, text |-> "Tariff"]>>)},
        d \in RawDetails, tr \in RawTranslations }

\* obj.key = v in a script that is not in strict mode: on a string the
\* assignment has no effect
setBlock(tr, e, k, z) == IF tr.t = "obj" THEN Translations("obj", e, k, z) ELSE tr

\* h.replace(/^#+/, '') on every entry
stripHashes(a) ==
    IF a.t = "arr"
    THEN Arr([j \in 1..Len(a.items) |-> [a.items[j] EXCEPT !.hashes = 0]])
    ELSE a

\* the defaults set after JSON.parse: for translations, then for the
\* top-level fields; bpm and color are passed on as they are
normalizeFields(countryName, r) ==
    LET tr0 == r.translations
        tr1 == IF tr0.t = "absent"
               THEN Translations("obj", NoBlock, NoBlock, NoBlock) ELSE tr0
        e == IF tr1.en.t = "absent"
             THEN Block(orStr(r.word, orStr(r.keyword, "Unknown")),
                        orArr(r.subTopics, orArr(r.hashtags, Arr(<<>>))),
                        orStr(r.reason, orStr(r.explanation, "")),
                        countryName)
             ELSE tr1.en
        k == IF tr1.ko.t = "absent"
             THEN Block(orStr(r.word, "unknown-ko"), orArr(r.subTopics, Arr(<<>>)),
                        orStr(r.reason, ""), countryName)
             ELSE tr1.ko
        z == IF tr1.zh.t = "absent"
             THEN Block(orStr(r.word, "unknown-zh"), orArr(r.subTopics, Arr(<<>>)),
                        orStr(r.reason, ""), countryName)
             ELSE tr1.zh
    IN JsonObject(orStr(r.word, orStr(r.keyword, "Unknown")),
                  r.keyword,
                  orArr(r.subTopics, orArr(r.hashtags, Arr(<<>>))),
                  r.hashtags,
                  orStr(r.reason, orStr(r.explanation, "")),
                  r.explanation,
                  orStr(r.mood, "Calm"),
                  r.bpm,
                  r.color,
                  setBlock(tr1, e, k, z))

normalize_addHash(countryName, r) ==
    [normalizeFields(countryName, r) EXCEPT !.subTopics =
        Arr([j \in 1..Len(@.items) |-> [@.items[j] EXCEPT !.hashes = @ + 1]])]

\* what analyzeWithGemini returns for the object JSON.parse gave
normalize(countryName, r) == normalizeFields(countryName, r)

\* String.prototype.toLowerCase on the strings of the model
toLowerCase(s) ==
    CASE s = "Tech Boom" -> "tech boom"
      [] s = "Market SHOCK Strike" -> "market shock strike"
      [] s = "NHS Reform" -> "nhs reform"
      [] s = "AI" -> "ai"
      [] s = "Unknown" -> "unknown"
      [] OTHER -> s

\* the words of the lists of guessMood that occur in a string as they are
\* written (lower.includes(w) is case-sensitive)
stemsIn(str) ==
    CASE str = "tech boom" -> {"boom", "tech"}
      [] str = "market shock strike" -> {"shock", "strike"}
      [] str = "Market SHOCK Strike" -> {}
      [] str = "nhs reform" -> {"reform"}
      [] OTHER -> {}

\* the category of the first list of guessMood that has one of the words
moodOfStems(st) ==
    IF st \cap {"panic", "chaos", "fear", "crisis", "turbulence", "turbulent",
                "anxiety", "shock"} # {} THEN "Panic"
    ELSE IF st \cap {"calm", "stable", "peace", "slow", "steady", "resilience",
                     "resilient"} # {} THEN "Calm"
    ELSE IF st \cap {"greed", "growth", "vibrancy", "vibrant", "boom", "surge",
                     "rally"} # {} THEN "Greed"
    ELSE IF st \cap {"innovation", "breakthrough", "tech", "progress",
                     "momentum"} # {} THEN "Innovation"
    ELSE IF st \cap {"conflict", "tension", "reform", "strike", "disquiet",
                     "unrest", "division"} # {} THEN "Conflict"
    ELSE "Calm"

guessMood_noLower(keyword) ==
    moodOfStems(stemsIn(IF keyword = Absent THEN "" ELSE keyword))

\* guessMood: the first list with a word that the lower-cased keyword includes
guessMood(keyword) ==
    moodOfStems(stemsIn(toLowerCase(IF keyword = Absent THEN "" ELSE keyword)))

\* normalizeCountryData of the client
normalizeCountryData(code, r) ==
    IF truthy(r.word) /\ r.subTopics.t = "arr" /\ r.translations.t # "absent"
    THEN r
    ELSE LET kw == orStr(r.keyword, orStr(r.word, "Unknown"))
             ht == orArr(r.hashtags, orArr(r.subTopics, Arr(<<>>)))
             ex == orStr(r.explanation, orStr(r.reason, ""))
             b(lang) == Block(kw, stripHashes(ht), ex, countryNames(code, lang))
         IN JsonObject(kw, Absent, stripHashes(ht), NoArr, ex, Absent,
                       orStr(r.mood, guessMood(kw)),
                       IF truthyNum(r.bpm) THEN r.bpm ELSE 80,
                       orStr(r.color, "#00F260"),
                       IF r.translations.t # "absent" THEN r.translations
                       ELSE Translations("obj", b("en"), b("ko"), b("zh")))

(* ---------------- state ---------------- *)
VARIABLES
    pc,             \* what the process awaits: init, awaitFetch, awaitBody, awaitAnalysis,
                    \* awaitBackoff, awaitPacing, done, exited
    apiKey,         \* GEMINI_API_KEY is set
    exitCode,       \* process exit code (0 until set)
    runNo,          \* number of the current run
    disk,           \* mood.json
    latest,         \* <code>.json files: code -> record
    historical,     \* <code>_<dateStr>Z.json files: name -> record
    results,        \* the accumulator of run()
    existingMoodData, \* what run() loaded
    i,              \* loop index (1-based)
    retryCount,     \* retryCount of the outstanding analyzeWithGemini call
    waitTime,       \* the backoff being slept
    lastError,      \* message of the error that led to the backoff
    written,        \* files written by the current run
    outcome,        \* per tracked code: pending, skipped, failed, updated, writefail
    reqCount,       \* analysis requests issued per code in this run
    backoffs,       \* backoff waits started per code in this run
    fetchCount,     \* feed fetches issued in this run
    processed,      \* codes in the order their loop iteration started
    slept,          \* ms slept since the last analysis request of this run (-1: none yet)
    lastGap,        \* value of slept when the latest request was issued (-1: first request)
    lastGapSame,    \* the request before the latest one was for the same code
    prevReqCode,    \* code of the latest request ("" if none)
    initKind,       \* kind of mood.json before the first run
    lastGood,       \* per tracked code: last run whose analysis succeeded, 0 if none
    storeReads,     \* reads of mood.json in this run
    storeWrites,    \* writes of mood.json in this run
    feed,           \* the Response of the feed fetch whose body is being read
    inflight,       \* outstanding network requests
    now,            \* the instant at which the current run starts
    updatedAtISO,   \* updatedAtISO of the current run
    dateStr,        \* dateStr of the current run
    otherNow,       \* start instant of a second invocation (slot alignment only)
    tz,             \* offset of the host's local time zone from UTC, in seconds
    otherTz,        \* the same for the host of the second invocation
    shown,          \* the time the client displays for the record of the run
    otherUpdatedAtISO,
    otherDateStr,
    raw,            \* a parsed model response (normalization only)
    parsed,         \* what analyzeWithGemini returns for it
    viewed,         \* what the client makes of the stored record
    body,           \* the item blocks of a feed body (feed parsing only)
    headlines       \* what fetchHeadlines returns for it

slotOther == <<otherNow, otherUpdatedAtISO, otherDateStr, tz, otherTz, shown>>

normVars == <<raw, parsed, viewed>>

feedVars == <<body, headlines>>

vars == <<pc, apiKey, exitCode, runNo, disk, latest, historical, results,
          existingMoodData, i, retryCount, waitTime, lastError, written, outcome,
          reqCount, backoffs, fetchCount, processed, slept, lastGap, lastGapSame,
          prevReqCode, initKind, lastGood, storeReads, storeWrites, feed, inflight,
          now, updatedAtISO, dateStr, otherNow, otherUpdatedAtISO, otherDateStr,
          tz, otherTz, shown,
          raw, parsed, viewed, body, headlines>>

Code == Tracked[i]

\* 2026-era instants would only add a constant: the first run starts on day
\* 1 at 04:47:00 UTC (13:47 KST)
FirstStart == DAY_S + 6 * HOUR_S + 59 * 60 + 58

\* the next run starts three hours after the previous one: in the next
\* window, or in the same one again
RunSpacings == {3 * HOUR_S}

NoSlot == <<0, <<0, 0>>>>

\* the variables of run() and of the bookkeeping before anything has run
InitRun ==
    /\ exitCode = 0
    /\ runNo = 1
    /\ latest = EmptyStore
    /\ historical = EmptyStore
    /\ results = EmptyStore
    /\ existingMoodData = EmptyStore
    /\ i = 0
    /\ retryCount = 0
    /\ waitTime = 0
    /\ lastError = <<>>
    /\ written = {}
    /\ outcome = [c \in TrackedSet |-> "pending"]
    /\ reqCount = [c \in TrackedSet |-> 0]
    /\ backoffs = [c \in TrackedSet |-> 0]
    /\ fetchCount = 0
    /\ processed = <<>>
    /\ slept = -1
    /\ lastGap = -1
    /\ lastGapSame = FALSE
    /\ prevReqCode = ""
    /\ initKind = disk.kind
    /\ lastGood = [c \in TrackedSet |-> 0]
    /\ storeReads = 0
    /\ storeWrites = 0
    /\ feed = NoResponse
    /\ inflight = {}
    /\ updatedAtISO = 0
    /\ dateStr = NoSlot

Init ==
    /\ pc = "init"
    /\ apiKey \in BOOLEAN
    /\ disk \in InitDisks
    /\ InitRun
    /\ now = FirstStart
    /\ otherNow = 0
    /\ tz = 0
    /\ otherTz = 0
    /\ shown = NoTime
    /\ otherUpdatedAtISO = 0
    /\ otherDateStr = NoSlot
    /\ raw = NoObject
    /\ parsed = NoObject
    /\ viewed = NoObject
    /\ body = <<>>
    /\ headlines = <<>>

PacesAfter_always(j) == TRUE

\* if (i < countryEntries.length - 1) await sleep(SLEEP_BETWEEN_COUNTRIES_MS)
PacesAfter(j) == j < Len(Tracked)

(* ---------------- the clock during a run ---------------- *)
\* seconds the run has spent in sleeps that are over: every backoff wait
\* lasts at least the short delay, every pacing wait the pacing interval
RECURSIVE backoffsUpTo(_)
backoffsUpTo(k) == IF k = 0 THEN 0 ELSE backoffs[Tracked[k]] + backoffsUpTo(k - 1)

pacingsDone ==
    Cardinality({k \in 1..(Len(Tracked) - 1) : k < i /\ outcome[Tracked[k]] = "updated"})

elapsedAtLeast ==
    (SHORT_DELAY_MS \div 1000)
        * (backoffsUpTo(Len(Tracked)) - (IF pc = "awaitBackoff" THEN 1 ELSE 0))
    + (SLEEP_BETWEEN_COUNTRIES_MS \div 1000) * pacingsDone

\* an instant the clock has reached
clockNow == now + elapsedAtLeast

runSlot_perEntity(stamp, label, clock) == slotOnHost(tz, clock)

\* the updatedAtISO and dateStr an entity is stored with: the constants run()
\* computed before the loop, whatever the clock shows by then
runSlot(stamp, label, clock) == <<stamp, label>>

(* ---------------- continuations ---------------- *)
\* The loop goes on with index j: the iteration of entity j starts (its feed
\* fetch is issued), or the loop is over and run() prunes and writes
\* mood.json.  fl is the set of requests still outstanding.
Continue(j, res, w, fl) ==
    /\ i' = j
    /\ IF j <= Len(Tracked)
       THEN /\ pc' = "awaitFetch"
            /\ fetchCount' = fetchCount + 1
            /\ processed' = Append(processed, Tracked[j])
            /\ inflight' = fl \cup {<<"fetch", Tracked[j]>>}
       ELSE /\ pc' = "done"
            /\ inflight' = fl
            /\ UNCHANGED <<fetchCount, processed>>
    /\ IF SavesStore(j)
       THEN /\ results' = Prune(res)
            /\ disk' = [kind |-> "json", data |-> Prune(res)]
            /\ written' = w \cup {<<"store", "mood.json">>}
            /\ storeWrites' = storeWrites + 1
       ELSE /\ results' = res
            /\ written' = w
            /\ UNCHANGED <<disk, storeWrites>>

\* an analysis request for the current entity goes out
IssueRequest(code) ==
    /\ reqCount' = [reqCount EXCEPT ![code] = @ + 1]
    /\ lastGap' = slept
    /\ lastGapSame' = (prevReqCode = code)
    /\ prevReqCode' = code
    /\ slept' = 0

Sleep(ms) == slept' = IF slept < 0 THEN slept ELSE slept + ms

\* process start: the credential check, then run() up to its first await
Start ==
    /\ pc = "init"
    /\ IF KeyMissingExits(apiKey)
       THEN /\ exitCode' = 1
            /\ pc' = "exited"
            /\ UNCHANGED <<disk, results, existingMoodData, i, written, fetchCount,
                           processed, storeReads, storeWrites, inflight,
                           updatedAtISO, dateStr>>
       ELSE /\ existingMoodData' = LoadExisting(disk)
            /\ storeReads' = storeReads + ReadsOf(disk)
            /\ updatedAtISO' = updatedAtISOOf(now)
            /\ dateStr' = dateStrOf(now)
            /\ Continue(1, InitialResults(LoadExisting(disk)), written, inflight)
            /\ UNCHANGED exitCode
    /\ UNCHANGED <<apiKey, runNo, latest, historical, retryCount, waitTime, lastError,
                   outcome, reqCount, backoffs, slept, lastGap, lastGapSame,
                   prevReqCode, initKind, lastGood, feed, now>>
    /\ UNCHANGED <<slotOther, normVars, feedVars>>

\* fetch(url) of the current entity settled: it threw (fetchHeadlines
\* returns []), or it resolved and response.text() is awaited
FetchReturn ==
    /\ pc = "awaitFetch"
    /\ \E f \in FeedStatuses :
        IF ~f.reachable
        THEN /\ outcome' = [outcome EXCEPT ![Code] = "skipped"]
             /\ Continue(NextIndex(i), results, written,
                         Settle(inflight, <<"fetch", Code>>))
             /\ UNCHANGED feed
        ELSE /\ pc' = "awaitBody"
             /\ feed' = [code |-> Code, ok |-> f.ok]
             /\ UNCHANGED <<outcome, i, results, written, disk, fetchCount,
                            processed, storeWrites, inflight>>
    /\ UNCHANGED <<apiKey, exitCode, runNo, latest, historical, existingMoodData,
                   retryCount, waitTime, lastError, reqCount, backoffs, slept,
                   lastGap, lastGapSame, prevReqCode, initKind, lastGood,
                   storeReads, now, updatedAtISO, dateStr>>
    /\ UNCHANGED <<slotOther, normVars, feedVars>>

\* response.text() resolved: fetchHeadlines returns, run() skips the entity
\* or calls analyzeWithGemini
BodyReturn ==
    /\ pc = "awaitBody"
    /\ feed' = NoResponse
    /\ \E n \in 0..MaxHeadlines :
        IF fetchHeadlines(feed, n) = 0
        THEN /\ outcome' = [outcome EXCEPT ![Code] = "skipped"]
             /\ Continue(NextIndex(i), results, written,
                         Settle(inflight, <<"fetch", Code>>))
             /\ UNCHANGED <<retryCount, reqCount, slept, lastGap, lastGapSame,
                            prevReqCode>>
        ELSE /\ pc' = "awaitAnalysis"
             /\ retryCount' = 0
             /\ IssueRequest(Code)
             /\ inflight' = Settle(inflight, <<"fetch", Code>>)
                               \cup {<<"analysis", Code>>}
             /\ UNCHANGED <<outcome, i, results, written, disk, fetchCount,
                            processed, storeWrites>>
    /\ UNCHANGED <<apiKey, exitCode, runNo, latest, historical, existingMoodData,
                   waitTime, lastError, backoffs, initKind, lastGood, storeReads,
                   now, updatedAtISO, dateStr>>
    /\ UNCHANGED <<slotOther, normVars, feedVars>>

\* the analysis request came back
AnalysisReturn ==
    /\ pc = "awaitAnalysis"
    /\ \E resp \in Responses :
        LET fl == Settle(inflight, <<"analysis", Code>>) IN
        IF resp.kind = "ok"
        THEN \E ai \in AiResults(Code, runNo) :
             LET slot == runSlot(updatedAtISO, dateStr, clockNow)
                 rec == finalData(ai, Code, slot[1])
                 res == Put(results, Code, rec)
                 hname == HistName(Code, slot[2])
             IN /\ lastGood' = [lastGood EXCEPT ![Code] = runNo]
                /\ \E wr \in {"ok", "failLatest", "failHistorical"} :
                    CASE wr = "ok" ->
                           /\ latest' = Put(latest, Code, rec)
                           /\ historical' = Put(historical, hname, rec)
                           /\ outcome' = [outcome EXCEPT ![Code] = "updated"]
                           /\ IF PacesAfter(i)
                              THEN /\ pc' = "awaitPacing"
                                   /\ results' = res
                                   /\ written' = written \cup
                                          {<<"latest", Code>>, <<"historical", Code>>}
                                   /\ inflight' = fl
                                   /\ UNCHANGED <<i, disk, fetchCount, processed,
                                                  storeWrites>>
                              ELSE Continue(NextIndex(i), res, written \cup
                                          {<<"latest", Code>>, <<"historical", Code>>},
                                          fl)
                      [] wr = "failLatest" ->
                           /\ UNCHANGED <<latest, historical>>
                           /\ outcome' = [outcome EXCEPT ![Code] = "writefail"]
                           /\ Continue(NextIndex(i), OnFailure(res, Code), written, fl)
                      [] wr = "failHistorical" ->
                           /\ latest' = Put(latest, Code, rec)
                           /\ UNCHANGED historical
                           /\ outcome' = [outcome EXCEPT ![Code] = "writefail"]
                           /\ Continue(NextIndex(i), OnFailure(res, Code),
                                       written \cup {<<"latest", Code>>}, fl)
                /\ UNCHANGED <<waitTime, lastError, backoffs>>
        ELSE IF ShouldRetry(retryCount)
        THEN /\ waitTime' = WaitTime(ErrorMessage(resp))
             /\ lastError' = ErrorMessage(resp)
             /\ backoffs' = [backoffs EXCEPT ![Code] = @ + 1]
             /\ pc' = "awaitBackoff"
             /\ inflight' = fl
             /\ UNCHANGED <<latest, historical, outcome, lastGood, i, results, written,
                            disk, fetchCount, processed, storeWrites>>
        ELSE /\ outcome' = [outcome EXCEPT ![Code] = "failed"]
             /\ Continue(NextIndex(i), OnFailure(results, Code), written, fl)
             /\ UNCHANGED <<latest, historical, lastGood, waitTime, lastError, backoffs>>
    /\ UNCHANGED <<apiKey, exitCode, runNo, existingMoodData, retryCount, reqCount,
                   slept, lastGap, lastGapSame, prevReqCode, initKind, storeReads,
                   feed, now, updatedAtISO, dateStr>>
    /\ UNCHANGED <<slotOther, normVars, feedVars>>

\* sleep(waitTime) is over: analyzeWithGemini calls itself with retryCount + 1
BackoffElapsed ==
    /\ pc = "awaitBackoff"
    /\ pc' = "awaitAnalysis"
    /\ retryCount' = retryCount + 1
    /\ lastGap' = slept + waitTime
    /\ lastGapSame' = (prevReqCode = Code)
    /\ prevReqCode' = Code
    /\ slept' = 0
    /\ reqCount' = [reqCount EXCEPT ![Code] = @ + 1]
    /\ waitTime' = 0
    /\ lastError' = <<>>
    /\ inflight' = inflight \cup {<<"analysis", Code>>}
    /\ UNCHANGED <<apiKey, exitCode, runNo, disk, latest, historical, results,
                   existingMoodData, i, written, outcome, backoffs, fetchCount,
                   processed, initKind, lastGood, storeReads, storeWrites, feed,
                   now, updatedAtISO, dateStr>>
    /\ UNCHANGED <<slotOther, normVars, feedVars>>

\* sleep(SLEEP_BETWEEN_COUNTRIES_MS) is over: next iteration
PacingElapsed ==
    /\ pc = "awaitPacing"
    /\ Sleep(SLEEP_BETWEEN_COUNTRIES_MS)
    /\ Continue(NextIndex(i), results, written, inflight)
    /\ UNCHANGED <<apiKey, exitCode, runNo, latest, historical, existingMoodData,
                   retryCount, waitTime, lastError, outcome, reqCount, backoffs,
                   lastGap, lastGapSame, prevReqCode, initKind, lastGood,
                   storeReads, feed, now, updatedAtISO, dateStr>>
    /\ UNCHANGED <<slotOther, normVars, feedVars>>

\* the scheduler starts the next run after the previous process has ended
NewRun ==
    /\ pc \in {"done", "exited"}
    /\ runNo < MaxRuns
    /\ runNo' = runNo + 1
    /\ pc' = "init"
    /\ apiKey' \in BOOLEAN
    /\ \E d \in RunSpacings : now' = now + d
    /\ exitCode' = 0
    /\ results' = EmptyStore
    /\ existingMoodData' = EmptyStore
    /\ i' = 0
    /\ retryCount' = 0
    /\ waitTime' = 0
    /\ lastError' = <<>>
    /\ written' = {}
    /\ outcome' = [c \in TrackedSet |-> "pending"]
    /\ reqCount' = [c \in TrackedSet |-> 0]
    /\ backoffs' = [c \in TrackedSet |-> 0]
    /\ fetchCount' = 0
    /\ processed' = <<>>
    /\ slept' = -1
    /\ lastGap' = -1
    /\ lastGapSame' = FALSE
    /\ prevReqCode' = ""
    /\ storeReads' = 0
    /\ storeWrites' = 0
    /\ feed' = NoResponse
    /\ inflight' = {}
    /\ updatedAtISO' = 0
    /\ dateStr' = NoSlot
    /\ UNCHANGED <<disk, latest, historical, initKind, lastGood>>
    /\ UNCHANGED <<slotOther, normVars, feedVars>>

Next ==
    \/ Start
    \/ FetchReturn
    \/ BodyReturn
    \/ AnalysisReturn
    \/ BackoffElapsed
    \/ PacingElapsed
    \/ NewRun

Spec == Init /\ [][Next]_vars

(* ---------------- one run whose requests and timers all return ---------------- *)
\* the steps of a single run
NextRun ==
    \/ Start
    \/ FetchReturn
    \/ BodyReturn
    \/ AnalysisReturn
    \/ BackoffElapsed
    \/ PacingElapsed

\* every outstanding fetch, body read and analysis request settles, and every
\* timer of sleep() fires
SpecLive ==
    /\ Init
    /\ [][NextRun]_vars
    /\ WF_vars(Start)
    /\ WF_vars(FetchReturn)
    /\ WF_vars(BodyReturn)
    /\ WF_vars(AnalysisReturn)
    /\ WF_vars(BackoffElapsed)
    /\ WF_vars(PacingElapsed)

(* ---------------- slot alignment on its own ---------------- *)
\* instants at which a run may start: every hour of days 1..MaxDay, at a few
\* minutes and seconds of the hour
SlotInstants ==
    { d * DAY_S + h * HOUR_S + ms[1] * 60 + ms[2] :
        d \in 1..MaxDay, h \in 0..23, ms \in {<<0, 0>>, <<10, 0>>, <<47, 0>>, <<59, 59>>} }

InitSlot ==
    /\ pc = "slot"
    /\ apiKey = TRUE
    /\ disk = [kind |-> "absent", data |-> EmptyStore]
    /\ InitRun
    /\ now \in SlotInstants
    /\ otherNow \in SlotInstants
    /\ tz \in HostZones
    /\ otherTz \in HostZones
    /\ shown = NoTime
    /\ otherUpdatedAtISO = 0
    /\ otherDateStr = NoSlot
    /\ raw = NoObject
    /\ parsed = NoObject
    /\ viewed = NoObject
    /\ body = <<>>
    /\ headlines = <<>>

\* two invocations compute their slot, each from its own start instant
AlignSlot ==
    /\ pc = "slot"
    /\ pc' = "slotDone"
    /\ updatedAtISO' = slotOnHost(tz, now)[1]
    /\ dateStr' = slotOnHost(tz, now)[2]
    /\ otherUpdatedAtISO' = slotOnHost(otherTz, otherNow)[1]
    /\ otherDateStr' = slotOnHost(otherTz, otherNow)[2]
    /\ UNCHANGED <<apiKey, exitCode, runNo, disk, latest, historical, results,
                   existingMoodData, i, retryCount, waitTime, lastError, written,
                   outcome, reqCount, backoffs, fetchCount, processed, slept, lastGap,
                   lastGapSame, prevReqCode, initKind, lastGood, storeReads,
                   storeWrites, feed, inflight, now, otherNow, tz, otherTz, shown>>
    /\ UNCHANGED <<normVars, feedVars>>

\* the client renders the record of the run: formatTime(selectedCountry.updatedAt)
Display ==
    /\ pc = "slotDone"
    /\ pc' = "displayed"
    /\ shown' = formatTime(updatedAtISO)
    /\ UNCHANGED <<apiKey, exitCode, runNo, disk, latest, historical, results,
                   existingMoodData, i, retryCount, waitTime, lastError, written,
                   outcome, reqCount, backoffs, fetchCount, processed, slept, lastGap,
                   lastGapSame, prevReqCode, initKind, lastGood, storeReads,
                   storeWrites, feed, inflight, now, updatedAtISO, dateStr, otherNow,
                   otherUpdatedAtISO, otherDateStr, tz, otherTz>>
    /\ UNCHANGED <<normVars, feedVars>>

NextSlot ==
    \/ AlignSlot
    \/ Display

SpecSlot == InitSlot /\ [][NextSlot]_vars

(* ---------------- normalization on its own ---------------- *)
InitNorm ==
    /\ pc = "parsed"
    /\ apiKey = TRUE
    /\ disk = [kind |-> "absent", data |-> EmptyStore]
    /\ InitRun
    /\ now = FirstStart
    /\ otherNow = 0
    /\ tz = 0
    /\ otherTz = 0
    /\ shown = NoTime
    /\ otherUpdatedAtISO = 0
    /\ otherDateStr = NoSlot
    /\ raw \in RawObjects
    /\ parsed = NoObject
    /\ viewed = NoObject
    /\ body = <<>>
    /\ headlines = <<>>

normFrame ==
    UNCHANGED <<apiKey, exitCode, runNo, disk, latest, historical, results,
                existingMoodData, i, retryCount, waitTime, lastError, written,
                outcome, reqCount, backoffs, fetchCount, processed, slept, lastGap,
                lastGapSame, prevReqCode, initKind, lastGood, storeReads,
                storeWrites, feed, inflight, now, updatedAtISO, dateStr,
                otherNow, otherUpdatedAtISO, otherDateStr, tz, otherTz, shown, raw, body,
                headlines>>

\* analyzeWithGemini normalizes the object JSON.parse returned
Normalize ==
    /\ pc = "parsed"
    /\ pc' = "normalized"
    /\ parsed' = normalize(countryNameOf(Tracked[1]), raw)
    /\ UNCHANGED viewed
    /\ normFrame

\* the client loads the record the pipeline stored and normalizes it
View ==
    /\ pc = "normalized"
    /\ pc' = "viewed"
    /\ viewed' = normalizeCountryData(Tracked[1], parsed)
    /\ UNCHANGED parsed
    /\ normFrame

\* the same normalization applied to a record that went through it
Renormalize ==
    /\ pc = "normalized"
    /\ pc' = "renormalized"
    /\ parsed' = normalize(countryNameOf(Tracked[1]), parsed)
    /\ UNCHANGED viewed
    /\ normFrame

\* the client loads a record that was stored as the model sent it (the
\* keyword/hashtags/explanation format of older data) and normalizes it
ViewStored ==
    /\ pc = "parsed"
    /\ pc' = "viewedStored"
    /\ viewed' = normalizeCountryData(Tracked[1], raw)
    /\ UNCHANGED parsed
    /\ normFrame

\* the client normalizes its own output again
Review ==
    /\ pc = "viewedStored"
    /\ pc' = "reviewed"
    /\ viewed' = normalizeCountryData(Tracked[1], viewed)
    /\ UNCHANGED parsed
    /\ normFrame

NextNorm ==
    \/ Normalize
    \/ View
    \/ Renormalize
    \/ ViewStored
    \/ Review

SpecNorm == InitNorm /\ [][NextNorm]_vars

(* ---------------- feed parsing on its own ---------------- *)
InitFeed ==
    /\ pc = "body"
    /\ apiKey = TRUE
    /\ disk = [kind |-> "absent", data |-> EmptyStore]
    /\ InitRun
    /\ now = FirstStart
    /\ otherNow = 0
    /\ tz = 0
    /\ otherTz = 0
    /\ shown = NoTime
    /\ otherUpdatedAtISO = 0
    /\ otherDateStr = NoSlot
    /\ raw = NoObject
    /\ parsed = NoObject
    /\ viewed = NoObject
    /\ \E n \in 0..MaxItems, u1 \in 0..MaxItems, u2 \in 0..MaxItems, p \in 1..MaxItems,
          k \in 1..MaxSegments, cd \in BOOLEAN :
          /\ u1 <= u2
          /\ u2 <= n
          /\ p <= n \/ p = 1
          /\ body = FeedBody(n, u1, u2, p, k, cd)
    /\ headlines = <<>>

\* fetchHeadlines parses the body it read
ParseFeed ==
    /\ pc = "body"
    /\ pc' = "headlines"
    /\ headlines' = headlinesOf(body)
    /\ UNCHANGED <<apiKey, exitCode, runNo, disk, latest, historical, results,
                   existingMoodData, i, retryCount, waitTime, lastError, written,
                   outcome, reqCount, backoffs, fetchCount, processed, slept, lastGap,
                   lastGapSame, prevReqCode, initKind, lastGood, storeReads,
                   storeWrites, feed, inflight, now, updatedAtISO, dateStr, body>>
    /\ UNCHANGED <<slotOther, normVars>>

NextFeed == ParseFeed

SpecFeed == InitFeed /\ [][NextFeed]_vars

(* ---------------- the variant that starts from an empty accumulator ---------------- *)
\* The analyze-mood variant of part_002: results starts as {}, the missing
\* credential only warns, the slot is taken with getHours / setHours in steps
\* of two hours, and the final write names moodJsonPath, which the file never
\* declares.

\* Math.floor(kstHour / 2) * 2 with the local hour, setHours, toISOString
legacySlot(zone, t) ==
    LET alignedHour == (getHours(nowKSTOf(t), zone) \div 2) * 2
    IN  <<setHours(nowKSTOf(t), zone, alignedHour),
          <<isoDate(nowKSTOf(t)), padStart2(alignedHour)>>>>

\* what fetchHeadlines does: it throws (fetch failed or status not ok),
\* returns no headline, or returns some
LegacyFeeds == {"threw", "empty", "some"}

InitLegacy ==
    /\ pc = "init"
    /\ apiKey \in BOOLEAN
    /\ disk \in InitDisks
    /\ InitRun
    /\ now = FirstStart
    /\ otherNow = 0
    /\ tz \in HostZones
    /\ otherTz = 0
    /\ shown = NoTime
    /\ otherUpdatedAtISO = 0
    /\ otherDateStr = NoSlot
    /\ raw = NoObject
    /\ parsed = NoObject
    /\ viewed = NoObject
    /\ body = <<>>
    /\ headlines = <<>>

legacyFrame ==
    /\ UNCHANGED <<apiKey, runNo, disk, existingMoodData, waitTime, lastError,
                   fetchCount, processed, slept, lastGap, lastGapSame, prevReqCode,
                   initKind, storeReads, storeWrites, feed, inflight, now>>
    /\ UNCHANGED <<slotOther, normVars, feedVars>>

\* the loop goes on with entity j, or it is over and line 179 is evaluated:
\* the reference to moodJsonPath throws a ReferenceError before writeFileSync
\* is called, run() rejects and, with no handler on run(), the process ends
\* with a failure code and mood.json untouched
LegacyContinue(j, res) ==
    /\ i' = j
    /\ results' = res
    /\ IF j <= Len(Tracked)
       THEN /\ pc' = "legacyFetch"
            /\ UNCHANGED exitCode
       ELSE /\ pc' = "rejected"
            /\ exitCode' = 1

\* run() up to the first await: results = {} and the slot
LegacyStart ==
    /\ pc = "init"
    /\ updatedAtISO' = legacySlot(tz, now)[1]
    /\ dateStr' = legacySlot(tz, now)[2]
    /\ LegacyContinue(1, InitialResults_empty(LoadExisting(disk)))
    /\ UNCHANGED <<latest, historical, retryCount, written, outcome, reqCount,
                   backoffs, lastGood>>
    /\ legacyFrame

\* fetchHeadlines settled; analyzeWithGemini throws at once without the key
LegacyFetchReturn ==
    /\ pc = "legacyFetch"
    /\ \E f \in LegacyFeeds :
        IF f = "some" /\ apiKey
        THEN /\ pc' = "legacyAnalysis"
             /\ retryCount' = 0
             /\ reqCount' = [reqCount EXCEPT ![Code] = @ + 1]
             /\ UNCHANGED <<i, results, exitCode, outcome>>
        ELSE /\ outcome' = [outcome EXCEPT ![Code] =
                               IF f = "empty" THEN "skipped" ELSE "failed"]
             /\ LegacyContinue(NextIndex(i), OnFailure(results, Code))
             /\ UNCHANGED <<retryCount, reqCount>>
    /\ UNCHANGED <<latest, historical, written, backoffs, lastGood, updatedAtISO,
                   dateStr>>
    /\ legacyFrame

\* the analysis request came back
LegacyAnalysisReturn ==
    /\ pc = "legacyAnalysis"
    /\ \E ok \in BOOLEAN :
        IF ok
        THEN \E ai \in AiResults(Code, runNo) :
             LET rec == finalData_aiLast(ai, Code, updatedAtISO) IN
             /\ results' = Put(results, Code, rec)
             /\ latest' = Put(latest, Code, rec)
             /\ historical' = Put(historical, HistName(Code, dateStr), rec)
             /\ written' = written \cup {<<"latest", Code>>, <<"historical", Code>>}
             /\ outcome' = [outcome EXCEPT ![Code] = "updated"]
             /\ lastGood' = [lastGood EXCEPT ![Code] = runNo]
             /\ pc' = "legacyPacing"
             /\ UNCHANGED <<i, exitCode, backoffs>>
        ELSE IF ShouldRetry(retryCount)
        THEN /\ pc' = "legacyBackoff"
             /\ backoffs' = [backoffs EXCEPT ![Code] = @ + 1]
             /\ UNCHANGED <<i, results, exitCode, latest, historical, written,
                            outcome, lastGood>>
        ELSE /\ outcome' = [outcome EXCEPT ![Code] = "failed"]
             /\ LegacyContinue(NextIndex(i), OnFailure(results, Code))
             /\ UNCHANGED <<latest, historical, written, lastGood, backoffs>>
    /\ UNCHANGED <<retryCount, reqCount, updatedAtISO, dateStr>>
    /\ legacyFrame

\* sleep(2000) is over: the next attempt
LegacyBackoffElapsed ==
    /\ pc = "legacyBackoff"
    /\ pc' = "legacyAnalysis"
    /\ retryCount' = retryCount + 1
    /\ reqCount' = [reqCount EXCEPT ![Code] = @ + 1]
    /\ UNCHANGED <<exitCode, i, results, latest, historical, written, outcome,
                   backoffs, lastGood, updatedAtISO, dateStr>>
    /\ legacyFrame

\* sleep(SLEEP_MS) after a success is over: next iteration
LegacyPacingElapsed ==
    /\ pc = "legacyPacing"
    /\ LegacyContinue(NextIndex(i), results)
    /\ UNCHANGED <<latest, historical, retryCount, written, outcome, reqCount,
                   backoffs, lastGood, updatedAtISO, dateStr>>
    /\ legacyFrame

NextLegacy ==
    \/ LegacyStart
    \/ LegacyFetchReturn
    \/ LegacyAnalysisReturn
    \/ LegacyBackoffElapsed
    \/ LegacyPacingElapsed

SpecLegacy == InitLegacy /\ [][NextLegacy]_vars

(* ======================= claims ======================= *)

C2_AtMostThreeAttempts ==
    \A c \in TrackedSet :
        /\ reqCount[c] <= MAX_RETRIES
        /\ outcome[c] = "failed" => reqCount[c] = MAX_RETRIES /\ backoffs[c] = MAX_RETRIES - 1
        /\ outcome[c] \in {"updated", "writefail"} => reqCount[c] = backoffs[c] + 1
        /\ outcome[c] = "skipped" => reqCount[c] = 0 /\ backoffs[c] = 0
        /\ (pc = "awaitAnalysis" /\ Code = c) =>
               reqCount[c] = retryCount + 1 /\ backoffs[c] = retryCount
        /\ (pc = "awaitBackoff" /\ Code = c) =>
               reqCount[c] = retryCount + 1 /\ backoffs[c] = retryCount + 1
                  /\ retryCount < MAX_RETRIES - 1

C2_Witness ==
    \E c \in TrackedSet :
        outcome[c] = "failed" /\ reqCount[c] = 3 /\ backoffs[c] = 2

\* C3: the wait before a retry is (n + 5) seconds when the error is
\* rate-limited and its text carries "retryDelay": "<n>s" (37s gives 42
\* seconds), 70 seconds when it is rate-limited and carries no such delay,
\* and 5 seconds when it is not a rate-limit error.
C3_BackoffTiming ==
    pc = "awaitBackoff" =>
        LET delays == {k \in 1..Len(lastError) :
                          lastError[k].lit = "retryDelay" /\ Len(lastError[k].digits) > 0}
            ds == lastError[CHOOSE k \in delays : \A m \in delays : k <= m].digits
            n == IF Len(ds) = 1 THEN ds[1] ELSE 10 * ds[1] + ds[2]
        IN  /\ (isRateLimit(lastError) /\ delays # {}) => waitTime = (n + 5) * 1000
            /\ (isRateLimit(lastError) /\ delays = {}) => waitTime = 70000
            /\ ~isRateLimit(lastError) => waitTime = 5000
            /\ ( isRateLimit(lastError)
                 /\ \E k \in 1..Len(lastError) : lastError[k] = RetryDelayTok(<<3, 7>>) )
               => waitTime = 42000

C3_Witness ==
    /\ pc = "awaitBackoff"
    /\ waitTime = 42000
    /\ \E k \in 1..Len(lastError) : lastError[k] = RetryDelayTok(<<3, 7>>)

\* C4: in one run the loop iterations start in configuration order, one per
\* tracked entity; the run ends only after every tracked entity has had its
\* iteration, whatever the outcomes before it; the process exits early only
\* for the missing credential.
C4_EveryEntityOnceInOrder ==
    /\ Len(processed) <= Len(Tracked)
    /\ \A k \in 1..Len(processed) : processed[k] = Tracked[k]
    /\ pc = "done" =>
          /\ processed = Tracked
          /\ \A c \in TrackedSet : outcome[c] # "pending"
    /\ pc = "exited" => ~apiKey
    /\ (pc \in {"awaitFetch", "awaitAnalysis", "awaitBackoff", "awaitPacing"}) =>
          /\ Len(processed) = i
          /\ \A k \in 1..(i - 1) : outcome[Tracked[k]] # "pending"

C4_Witness ==
    /\ pc = "done"
    /\ outcome[Tracked[1]] = "failed"
    /\ outcome[Tracked[2]] \in {"updated", "skipped"}
    /\ processed = Tracked

\* C5: between two consecutive analysis requests of a run there is a wait: a
\* backoff between two attempts for the same entity, and at least the pacing
\* wait between the last request of one entity and the first request of the
\* next, whether the earlier entity succeeded or failed.
C5_WaitBetweenRequests ==
    lastGap # -1 =>
        IF lastGapSame THEN lastGap > 0 ELSE lastGap >= SLEEP_BETWEEN_COUNTRIES_MS

\* C6: with the credential absent the process exits with a non-zero code
\* before run() starts: no feed fetch, no analysis request, no file write.
C6_MissingKeyAborts ==
    ~apiKey =>
        /\ pc \in {"init", "exited"}
        /\ pc = "exited" => exitCode # 0
        /\ fetchCount = 0
        /\ \A c \in TrackedSet : reqCount[c] = 0
        /\ written = {}
        /\ processed = <<>>

C6_Witness ==
    /\ pc = "exited"
    /\ ~apiKey
    /\ exitCode = 1
    /\ disk.kind = "json"
    /\ runNo = 2

\* C7: in a run that started with the credential, the exit code is non-zero
\* exactly when the analysis of some tracked entity failed after the retries,
\* and mood.json is written in both cases.
C7_ExitCodeSignalsFailure ==
    pc = "done" =>
        /\ (exitCode # 0) <=> (\E c \in TrackedSet : outcome[c] = "failed")
        /\ <<"store", "mood.json">> \in written

\* C8: the mood.json a run writes has no key outside the tracked ids.
C8_NoUntrackedKey ==
    pc = "done" =>
        /\ disk.kind = "json"
        /\ <<"store", "mood.json">> \in written
        /\ DOMAIN disk.data \subseteq TrackedSet

\* loaded {A, B, C} with tracked {A, B}: written key set {A, B}
C8_Witness ==
    /\ pc = "done"
    /\ DOMAIN existingMoodData = TrackedSet \cup {UntrackedKey}
    /\ DOMAIN disk.data = TrackedSet

\* C9 as stated: after a run the key set of the written store equals the
\* set of tracked ids.
C9_KeySetEqualsTracked ==
    pc = "done" => DOMAIN disk.data = TrackedSet

\* C9 amended: after a run the key set of the written store is the set of
\* the tracked ids that had an entry in the loaded store or whose analysis
\* succeeded in this run (a subset of the tracked ids).
C9_KeySetIsTrackedWithData ==
    pc = "done" =>
        DOMAIN disk.data =
            {c \in TrackedSet : c \in DOMAIN existingMoodData \/ lastGood[c] = runNo}

C9_Witness ==
    /\ pc = "done"
    /\ UntrackedKey \in DOMAIN existingMoodData
    /\ \E c \in TrackedSet :
          /\ c \notin DOMAIN existingMoodData
          /\ outcome[c] = "skipped"
          /\ c \notin DOMAIN disk.data
    /\ \E c \in TrackedSet : c \in DOMAIN disk.data

C11_StoreReadOnceWrittenOnce ==
    /\ [](/\ storeReads <= 1
          /\ storeWrites <= 1
          /\ (pc = "done" => storeWrites = 1)
          /\ (storeWrites >= 1 =>
                /\ pc = "done"
                /\ Len(processed) = Len(Tracked)
                /\ \A c \in TrackedSet : outcome[c] # "pending"))
    /\ [][storeReads' > storeReads => processed = <<>>]_vars
    /\ [][storeWrites' > storeWrites =>
            \A c \in TrackedSet : outcome'[c] # "pending"]_vars

C11_Witness ==
    /\ pc = "done"
    /\ storeReads = 1
    /\ storeWrites = 1
    /\ outcome[Tracked[1]] = "failed"
    /\ outcome[Tracked[2]] = "skipped"
    /\ <<"store", "mood.json">> \in written

\* C12: when the feed of an entity is unreachable or answers with a non-2xx
\* status, no analysis request is made for the entity, none of its files is
\* written, and the run goes on with the next entity.
C12_BadFeedSkipsEntity ==
    [][(\/ pc = "awaitFetch" /\ pc' # "awaitBody"
        \/ pc = "awaitBody" /\ ~feed.ok)
       => /\ reqCount' = reqCount
          /\ latest' = latest
          /\ historical' = historical
          /\ outcome'[Tracked[i]] = "skipped"
          /\ pc' \in {"awaitFetch", "done"}]_vars

\* C13: at most one network request is outstanding at any time, it belongs
\* to the entity being processed, and every entity whose iteration started
\* earlier has finished.
C13_OneRequestAtATime ==
    /\ Cardinality(inflight) <= 1
    /\ \A r \in inflight :
          /\ processed # <<>>
          /\ r[2] = processed[Len(processed)]
          /\ outcome[r[2]] = "pending"
    /\ \A k \in 1..(Len(processed) - 1) : outcome[processed[k]] # "pending"

C13_Witness ==
    /\ inflight = {<<"analysis", Tracked[2]>>}
    /\ outcome[Tracked[1]] = "updated"
    /\ retryCount = 1

\* the hour of day of an instant in KST, and the schedule window it lies in
kstHourOf(t) == getUTCHours(t + KST_OFFSET_S)
kstDayOf(t) == isoDate(t + KST_OFFSET_S)
windowOf(t) == Cardinality({k \in 1..Len(scheduleHours) : scheduleHours[k] <= kstHourOf(t)})
labelHour(ds) == 10 * ds[2][1] + ds[2][2]

\* C14: the aligned hour is the greatest schedule hour that is at most the
\* current hour of day in KST; the aligned timestamp has minute 0 and second
\* 0, lies on the same KST day as the current time and is never later than
\* the current time.
C14_AlignedSlot ==
    pc = "slotDone" =>
        /\ \E k \in 1..Len(scheduleHours) :
              /\ labelHour(dateStr) = scheduleHours[k]
              /\ scheduleHours[k] <= kstHourOf(now)
              /\ \A m \in 1..Len(scheduleHours) :
                    scheduleHours[m] <= kstHourOf(now) => scheduleHours[m] <= scheduleHours[k]
        /\ getUTCMinutes(updatedAtISO) = 0
        /\ getUTCSeconds(updatedAtISO) = 0
        /\ kstDayOf(updatedAtISO) = kstDayOf(now)
        /\ updatedAtISO <= now

\* C15: two runs started at instants that lie in the same schedule window of
\* the same KST day compute the same updatedAt and the same slot label.
C15_SameWindowSameSlot ==
    (/\ pc = "slotDone"
     /\ kstDayOf(now) = kstDayOf(otherNow)
     /\ windowOf(now) = windowOf(otherNow))
    => /\ updatedAtISO = otherUpdatedAtISO
       /\ dateStr = otherDateStr

C15_Witness ==
    /\ pc = "slotDone"
    /\ kstDayOf(now) = kstDayOf(otherNow)
    /\ windowOf(now) = windowOf(otherNow)
    /\ kstHourOf(now) # kstHourOf(otherNow)
    /\ updatedAtISO = otherUpdatedAtISO
    /\ dateStr = otherDateStr
    /\ labelHour(dateStr) = 20

\* the slot label that names the slot of an aligned timestamp
labelOf(u) == <<isoDate(u), padStart2(getUTCHours(u))>>

\* C16: every record the current run writes (store entry, latest file,
\* historical file) carries the aligned timestamp of the run as updatedAt and
\* the tracked id it is stored under as countryCode, whatever the response
\* contains.
C16_RecordStampedByRun ==
    /\ \A c \in DOMAIN results :
          results[c].gen = runNo =>
             results[c].updatedAt = updatedAtISO /\ results[c].countryCode = c
    /\ \A c \in DOMAIN disk.data :
          disk.data[c].gen = runNo =>
             disk.data[c].updatedAt = updatedAtISO /\ disk.data[c].countryCode = c
    /\ \A c \in DOMAIN latest :
          latest[c].gen = runNo =>
             latest[c].updatedAt = updatedAtISO /\ latest[c].countryCode = c
    /\ \A n \in DOMAIN historical :
          historical[n].gen = runNo =>
             historical[n].updatedAt = updatedAtISO /\ historical[n].countryCode = n[1]

C16_Witness ==
    /\ pc = "done"
    /\ runNo = 2
    /\ \A c \in TrackedSet :
          /\ outcome[c] = "updated"
          /\ disk.data[c] = [gen |-> 2, countryCode |-> c, updatedAt |-> updatedAtISO]
          /\ latest[c] = disk.data[c]
    /\ updatedAtISO # 0

\* C17: a run creates or changes historical files only under its own slot
\* label and removes none, and a historical file name determines the entity
\* and the slot of the record it holds, so that two different (entity, slot)
\* pairs never share a file name.
C17_HistoricalFrame ==
    /\ [][/\ DOMAIN historical \subseteq DOMAIN historical'
          /\ \A n \in DOMAIN historical' :
                (n \notin DOMAIN historical \/ historical'[n] # historical[n])
                   => <<n[2], n[3]>> = dateStr]_vars
    /\ [](\A n \in DOMAIN historical :
             /\ historical[n].countryCode = n[1]
             /\ labelOf(historical[n].updatedAt) = <<n[2], n[3]>>)

C17_Witness ==
    /\ runNo = 2
    /\ HistName(Tracked[1], dateStr) \in DOMAIN historical
    /\ historical[HistName(Tracked[1], dateStr)].gen = 2
    /\ \E n \in DOMAIN historical :
          /\ n[1] = Tracked[1]
          /\ <<n[2], n[3]>> # dateStr
          /\ historical[n].gen = 1

\* C18: when an entity was updated successfully in a run, then at the end of
\* the run its latest file, its historical file for the slot of the run and
\* its entry in the written store hold the same record.
C18_ThreeCopiesAgree ==
    \A c \in TrackedSet :
       (pc = "done" /\ outcome[c] = "updated") =>
          /\ c \in DOMAIN latest
          /\ c \in DOMAIN disk.data
          /\ HistName(c, dateStr) \in DOMAIN historical
          /\ latest[c] = disk.data[c]
          /\ historical[HistName(c, dateStr)] = disk.data[c]
          /\ disk.data[c].gen = runNo

C18_Witness ==
    /\ pc = "done"
    /\ runNo = 2
    /\ outcome[Tracked[1]] = "updated"
    /\ outcome[Tracked[2]] = "failed"
    /\ lastGood[Tracked[2]] = 1
    /\ latest[Tracked[1]] = disk.data[Tracked[1]]
    /\ historical[HistName(Tracked[1], dateStr)] = disk.data[Tracked[1]]
    /\ disk.data[Tracked[1]].gen = 2

\* a translations value with an entry for each of en, ko, zh
hasAllLanguages(tr) ==
    /\ tr.t = "obj"
    /\ tr.en.t # "absent"
    /\ tr.ko.t # "absent"
    /\ tr.zh.t # "absent"

\* no entry of the array starts with '#'
noLeadingHash(a) == \A j \in 1..Len(a.items) : a.items[j].hashes = 0

noLeadingHashIn(r) ==
    /\ noLeadingHash(r.subTopics)
    /\ noLeadingHash(r.translations.en.subTopics)
    /\ noLeadingHash(r.translations.ko.subTopics)
    /\ noLeadingHash(r.translations.zh.subTopics)

\* C19: after normalization of a response that parsed to an object, the
\* translations of the record have an entry for each of en, ko and zh.
C19_AllLanguagesPresent ==
    /\ pc \in {"normalized", "viewed"} => hasAllLanguages(parsed.translations)
    /\ pc = "viewed" => hasAllLanguages(viewed.translations)

\* C20: after normalization no sub-topic of the record, at the top level or
\* in a translation block, starts with '#'.
C20_NoLeadingHash ==
    /\ pc \in {"normalized", "viewed"} => noLeadingHashIn(parsed)
    /\ pc = "viewed" => noLeadingHashIn(viewed)

Moods == {"Panic", "Calm", "Greed", "Innovation", "Conflict"}

\* the records the two normalizations have produced so far
normalizedRecords ==
    (IF pc \in {"normalized", "viewed", "renormalized"} THEN {parsed} ELSE {})
    \cup (IF pc \in {"viewed", "viewedStored", "reviewed"} THEN {viewed} ELSE {})

\* C21: after normalization the bpm of a record is an integer in [40, 180];
\* a missing or out-of-range value has been replaced by the default.
C21_BpmInRange ==
    \A r \in normalizedRecords : r.bpm \in 40..180

\* C22: after normalization the mood of a record is one of the five moods.
C22_MoodEnumerated ==
    \A r \in normalizedRecords : r.mood \in Moods

\* C23: normalization of an object yields a record in which mood, word,
\* subTopics, reason, bpm, color and translations are all present.
C23_RequiredFieldsPresent ==
    \A r \in normalizedRecords :
        /\ r.mood # Absent
        /\ r.word # Absent
        /\ r.subTopics.t = "arr"
        /\ r.reason # Absent
        /\ r.bpm # NoNumber
        /\ r.color # Absent
        /\ r.translations.t # "absent"

\* a record that has every field the normalizations look at
wellFormed(r) ==
    /\ truthy(r.word)
    /\ r.subTopics.t = "arr"
    /\ truthy(r.reason)
    /\ truthy(r.mood)
    /\ r.translations.t = "obj"
    /\ r.translations.en.t = "obj"
    /\ r.translations.ko.t = "obj"
    /\ r.translations.zh.t = "obj"

\* C24: normalization is idempotent: a well-formed record comes back with no
\* field changed, and normalizing the output of a normalization gives that
\* output again (for the pipeline's normalization and for the client's).
C24_Idempotent ==
    /\ [][(pc = "parsed" /\ pc' = "normalized" /\ wellFormed(raw)) => parsed' = raw]_vars
    /\ [][(pc = "parsed" /\ pc' = "viewedStored" /\ wellFormed(raw)) => viewed' = raw]_vars
    /\ [][(pc = "normalized" /\ pc' = "renormalized") => parsed' = parsed]_vars
    /\ [][(pc = "normalized" /\ pc' = "viewed" /\ wellFormed(parsed)) => viewed' = parsed]_vars
    /\ [][(pc = "viewedStored" /\ pc' = "reviewed") => viewed' = viewed]_vars

C24_Witness ==
    /\ pc = "renormalized"
    /\ ~wellFormed(raw)
    /\ parsed # raw
    /\ parsed.subTopics = Arr(<<[hashes |-> 1, text |-> "Tariff"]>>)
    /\ parsed.word = "Tech Boom"

\* primary field if present, else legacy field if present, else the default
pickStr(primary, legacy, default) ==
    IF truthy(primary) THEN primary ELSE IF truthy(legacy) THEN legacy ELSE default
pickArr(primary, legacy) ==
    IF primary.t = "arr" THEN primary ELSE IF legacy.t = "arr" THEN legacy ELSE Arr(<<>>)

\* out has the word, subTopics (leading '#' aside) and reason that the
\* two-tier fallback picks from in
fallbackChosen(in, out) ==
    /\ out.word = pickStr(in.word, in.keyword, "Unknown")
    /\ stripHashes(out.subTopics) = stripHashes(pickArr(in.subTopics, in.hashtags))
    /\ out.reason = pickStr(in.reason, in.explanation, "")

\* C30: for word, subTopics and reason normalization takes the primary field
\* when it is present, the legacy field (keyword, hashtags, explanation) only
\* when the primary one is absent, and the default only when both are absent.
C30_PrimaryLegacyDefault ==
    /\ pc = "normalized" => fallbackChosen(raw, parsed)
    /\ pc = "viewedStored" => fallbackChosen(raw, viewed)

\* C25: fetchHeadlines returns at most 15 headlines, in the order of the
\* item blocks of the feed, one for each of the first 15 item blocks that has
\* a title.
C25_FirstFifteenInOrder ==
    pc = "headlines" =>
        /\ Len(headlines) <= 15
        /\ \A a \in 1..Len(headlines), b \in 1..Len(headlines) :
              a < b => headlines[a].id < headlines[b].id
        /\ {headlines[a].id : a \in 1..Len(headlines)}
              = {j \in 1..Len(body) : j <= 15 /\ body[j].titled}

C25_Witness ==
    /\ pc = "headlines"
    /\ Len(body) = 16
    /\ ~body[3].titled
    /\ body[16].titled
    /\ Len(headlines) = 14
    /\ headlines[14].id = 15

\* C26: a headline is the title of its item without the CDATA wrapper and
\* without the trailing " - source" part only: everything before the last
\* " - " is kept.
C26_OnlySourceSuffixRemoved ==
    pc = "headlines" =>
        \A a \in 1..Len(headlines) :
            LET it == body[headlines[a].id]
            IN  /\ ~headlines[a].cdata
                /\ headlines[a].kept = IF it.segs >= 2 THEN it.segs - 1 ELSE 1

\* the message of the SyntaxError that JSON.parse threw
isBadJson(msg) == msg # <<>> /\ msg[1] = Lit("Unexpected token")

\* the message of an HTTP 429 answer, and a message with a quota marker
isStatus429(msg) ==
    /\ Len(msg) >= 2
    /\ msg[1] = Lit("Gemini API Error:")
    /\ msg[2] = Num(<<4, 2, 9>>)
hasQuotaMarker(msg) == includes(msg, "Quota") \/ includes(msg, "RESOURCE_EXHAUSTED")

\* the entry of code c in the store is the one the run loaded (or none)
keepsPrevious(store, c) ==
    /\ c \in DOMAIN store <=> c \in DOMAIN existingMoodData
    /\ c \in DOMAIN store /\ c \in DOMAIN existingMoodData => store[c] = existingMoodData[c]

\* C27: generated text that cannot be parsed as JSON uses up one of the 3
\* attempts and is retried after the short wait; after 3 failures the entity
\* is abandoned for the run with its prior data kept, and the run goes on.
C27_BadJsonRetriedAfterShortWait ==
    /\ (pc = "awaitBackoff" /\ isBadJson(lastError)) =>
          /\ waitTime = SHORT_DELAY_MS
          /\ reqCount[Tracked[i]] < MAX_RETRIES
    /\ \A c \in TrackedSet :
          /\ reqCount[c] <= MAX_RETRIES
          /\ outcome[c] = "failed" =>
                /\ keepsPrevious(results, c)
                /\ pc \in {"awaitFetch", "awaitBody", "awaitAnalysis", "awaitBackoff",
                           "awaitPacing", "done"}

\* C28: a failed attempt is treated as rate-limited exactly when the API
\* answered with status 429 or with a quota marker; every other failure gets
\* the short wait, whatever else its error text contains.
C28_RateLimitOnly429OrQuota ==
    pc = "awaitBackoff" =>
        IF isStatus429(lastError) \/ hasQuotaMarker(lastError)
        THEN waitTime = IF retryDelayMatch(lastError) # 0
                        THEN (parseInt(lastError[retryDelayMatch(lastError)].digits)
                                 + SAFETY_MARGIN_S) * 1000
                        ELSE DEFAULT_COOLDOWN_MS
        ELSE waitTime = SHORT_DELAY_MS

\* C29: when the processing of an entity ended in the per-entity error
\* handler, also after a failed write of its latest or historical file, the
\* store written at the end of the run holds the previous entry of the entity.
C29_ErrorKeepsPreviousEntry ==
    \A c \in TrackedSet :
        (pc = "done" /\ outcome[c] \in {"failed", "writefail"}) =>
            keepsPrevious(disk.data, c)

\* the block has the content of the record's own fields and the display name
synthesizedFrom(blk, rec, name) ==
    /\ blk.t = "obj"
    /\ blk.word = rec.word
    /\ blk.subTopics = rec.subTopics
    /\ blk.reason = rec.reason
    /\ blk.country = name

\* C31: a language block that the response lacks is synthesized with the word,
\* sub-topics and reason of the normalized record's top-level fields and with
\* the entity's display name as country, in each of en, ko and zh (so a
\* response with only keyword / hashtags / explanation has the same content in
\* all three languages).
C31_SynthesizedBlockEqualsTopLevel ==
    (pc = "normalized" /\ raw.translations.t \in {"absent", "obj"}) =>
        /\ raw.translations.en.t = "absent" =>
              synthesizedFrom(parsed.translations.en, parsed, countryNameOf(Tracked[1]))
        /\ raw.translations.ko.t = "absent" =>
              synthesizedFrom(parsed.translations.ko, parsed, countryNameOf(Tracked[1]))
        /\ raw.translations.zh.t = "absent" =>
              synthesizedFrom(parsed.translations.zh, parsed, countryNameOf(Tracked[1]))

\* C32: the aligned hour, updatedAt and the slot label depend only on the UTC
\* instant at which the run starts: two hosts with different local time zones
\* that start at the same instant compute the same updatedAt and the same
\* label, whose hour is the aligned hour of the KST hour of day and whose date
\* is the KST date of the instant.
C32_SlotIndependentOfHostZone ==
    (pc = "slotDone" /\ now = otherNow) =>
        /\ updatedAtISO = otherUpdatedAtISO
        /\ dateStr = otherDateStr
        /\ labelHour(dateStr) = alignLoop(1, scheduleHours[1], kstHourOf(now))
        /\ dateStr[1] = kstDayOf(now)
        /\ getUTCHours(updatedAtISO) = labelHour(dateStr)
        /\ isoDate(updatedAtISO) = kstDayOf(now)

C32_Witness ==
    /\ pc = "slotDone"
    /\ now = otherNow
    /\ tz = 0 - 5 * HOUR_S
    /\ otherTz = 9 * HOUR_S
    /\ kstHourOf(now) = 3
    /\ updatedAtISO = otherUpdatedAtISO
    /\ labelHour(otherDateStr) = 0

\* C33: the slot is computed once, from the instant at which the run starts,
\* before the first entity is processed; every two entities updated in one run
\* carry the same updatedAt and have their historical file under the same slot
\* label, also when the clock has passed the next schedule boundary by the
\* time a later entity is stored.
C33_OneSlotPerRun ==
    /\ pc \notin {"init", "exited"} =>
          /\ updatedAtISO = updatedAtISOOf(now)
          /\ dateStr = dateStrOf(now)
    /\ \A c \in TrackedSet, d \in TrackedSet :
          (outcome[c] = "updated" /\ outcome[d] = "updated") =>
             /\ c \in DOMAIN latest /\ d \in DOMAIN latest
             /\ c \in DOMAIN results /\ d \in DOMAIN results
             /\ latest[c].updatedAt = latest[d].updatedAt
             /\ results[c].updatedAt = results[d].updatedAt
             /\ \E ds \in {dateStr} :
                   /\ HistName(c, ds) \in DOMAIN historical
                   /\ HistName(d, ds) \in DOMAIN historical
                   /\ historical[HistName(c, ds)].gen = runNo
                   /\ historical[HistName(d, ds)].gen = runNo
                   /\ historical[HistName(c, ds)].updatedAt
                         = historical[HistName(d, ds)].updatedAt

C33_Witness ==
    /\ pc = "done"
    /\ runNo = 1
    /\ outcome[Tracked[1]] = "updated"
    /\ outcome[Tracked[2]] = "updated"
    /\ backoffs[Tracked[2]] = 2
    /\ updatedAtISOOf(clockNow) # updatedAtISO
    /\ dateStrOf(clockNow) # dateStr
    /\ latest[Tracked[1]].updatedAt = latest[Tracked[2]].updatedAt
    /\ labelHour(dateStr) = 12
    /\ labelHour(dateStrOf(clockNow)) = 16

\* C34: the time the client displays for a record of the run, labelled KST,
\* is the KST slot boundary the run aligned to: its hour is the aligned
\* schedule hour, its minute is 0 and its date is the KST date of the slot.
C34_DisplayedTimeIsSlot ==
    pc = "displayed" =>
        /\ shown.hour = labelHour(dateStr)
        /\ shown.minute = 0
        /\ shown.day = dateStr[1]

\* C35: when every network request returns, a run terminates: it ends with
\* the store written once (or with the exit for the missing credential); on
\* the way it makes at most 3 analysis requests and 2 backoff waits per
\* tracked entity, and a pacing wait begins only after an entity that is not
\* the last one has just been updated, so at most once per such entity.
C35_RunTerminates ==
    /\ <>(pc \in {"done", "exited"})
    /\ [](pc = "done" => storeWrites = 1 /\ <<"store", "mood.json">> \in written)
    /\ [](pc = "exited" => exitCode = 1 /\ ~apiKey)
    /\ [](\A c \in TrackedSet :
             reqCount[c] <= MAX_RETRIES /\ backoffs[c] <= MAX_RETRIES - 1)
    /\ [][pc' = "awaitPacing" =>
             /\ pc = "awaitAnalysis"
             /\ i < Len(Tracked)
             /\ i' = i
             /\ outcome[Tracked[i]] = "pending"
             /\ outcome'[Tracked[i]] = "updated"]_vars

C35_Witness ==
    /\ pc = "done"
    /\ storeWrites = 1
    /\ outcome[Tracked[1]] = "updated"
    /\ reqCount[Tracked[1]] = MAX_RETRIES
    /\ backoffs[Tracked[1]] = MAX_RETRIES - 1
    /\ outcome[Tracked[Len(Tracked)]] = "failed"
    /\ reqCount[Tracked[Len(Tracked)]] = MAX_RETRIES

\* the run found no mood.json (it read nothing), or the first run found one
\* that JSON.parse rejects
startedWithoutStore ==
    /\ pc \notin {"init", "exited"}
    /\ \/ storeReads = 0
       \/ runNo = 1 /\ initKind = "corrupt"

MoodOrder == <<"Panic", "Calm", "Greed", "Innovation", "Conflict">>

markersOf(keyword, mood) ==
    CASE keyword = "Tech Boom" /\ mood = "Greed" -> {"boom"}
      [] keyword = "Tech Boom" /\ mood = "Innovation" -> {"tech"}
      [] keyword = "Market SHOCK Strike" /\ mood = "Panic" -> {"shock"}
      [] keyword = "Market SHOCK Strike" /\ mood = "Conflict" -> {"strike"}
      [] keyword = "NHS Reform" /\ mood = "Conflict" -> {"reform"}
      [] OTHER -> {}

firstCategory(keyword) ==
    LET hits == {k \in 1..Len(MoodOrder) : markersOf(keyword, MoodOrder[k]) # {}}
    IN  IF hits = {} THEN "Calm"
        ELSE MoodOrder[CHOOSE k \in hits : \A m \in hits : k <= m]

\* a record for which the client builds a new one
takesLegacyPath(r) ==
    ~(truthy(r.word) /\ r.subTopics.t = "arr" /\ r.translations.t # "absent")

\* C37: the mood the client guesses is one of the five moods: the first
\* category, in the order Panic, Calm, Greed, Innovation, Conflict, one of
\* whose markers occurs in the lower-cased keyword, and Calm when none does or
\* the keyword is empty; the guess is used only when the raw record carries no
\* mood.
C37_GuessedMood ==
    (pc = "viewedStored" /\ takesLegacyPath(raw)) =>
        IF truthy(raw.mood)
        THEN viewed.mood = raw.mood
        ELSE /\ viewed.mood = firstCategory(orStr(raw.keyword, orStr(raw.word, "Unknown")))
             /\ viewed.mood \in Moods

C37_Witness ==
    /\ pc = "viewedStored"
    /\ takesLegacyPath(raw)
    /\ raw.mood = Absent
    /\ raw.keyword = "Market SHOCK Strike"
    /\ viewed.mood = "Panic"

\* C38: in the variant whose comments say that a failed country falls back to
\* its previous data because results was initialized with the existing store,
\* a run ends by writing the combined store, and the accumulator and the
\* store hold the previous data of every country that failed in the run.
C38_FailedFallBackToPrevious ==
    pc = "rejected" =>
        /\ storeWrites = 1
        /\ exitCode = 0
        /\ \A c \in TrackedSet :
              (outcome[c] = "failed" /\ initKind = "json" /\ c \in DOMAIN disk.data) =>
                 /\ c \in DOMAIN results
                 /\ results[c] = OldRecord(c)

====
